---- MODULE Spec2Model ----
(***************************************************************************)
(* Model of the two helper scripts of appstream-generator:                 *)
(*   contrib/girwrap/find-d-intf-files.py   (the Path Discoverer)          *)
(*   tests/ci/run-dscanner.py               (the Lint Invoker)             *)
(*                                                                         *)
(* A path string is a sequence of tokens: the separator "/" and names.     *)
(* Chars gives the character codes of every token, so that fnmatch, the    *)
(* hidden-name test and the string order of sorted() are computed on the   *)
(* characters, as Python computes them.                                    *)
(***************************************************************************)
EXTENDS Integers, Sequences, FiniteSets, TLC

VARIABLES prog, environ, argv, fs, dscanner, pc, files, queue, cmd,
          launches, pres, calls, out, status

vars == <<prog, environ, argv, fs, dscanner, pc, files, queue, cmd,
          launches, pres, calls, out, status>>

(* ------------------------------ bounds -------------------------------- *)

\* at most this many candidate entries are picked into the filesystem
MaxEntries == 3
\* the external tool returns a code in -MaxRet .. MaxRet
MaxRet == 2

(* --------------------------- characters ------------------------------- *)

Chars ==
     ("/" :> <<47>>) @@ ("." :> <<46>>) @@ (".." :> <<46, 46>>)
  @@ ("*" :> <<42>>) @@ ("**" :> <<42, 42>>) @@ ("*.d" :> <<42, 46, 100>>)
  @@ ("b" :> <<98>>) @@ ("nb" :> <<110, 98>>) @@ ("s" :> <<115>>)
  @@ ("girepo" :> <<103, 105, 114, 101, 112, 111>>)
  @@ ("a.d" :> <<97, 46, 100>>) @@ ("-x.d" :> <<45, 120, 46, 100>>)
  @@ ("y.d" :> <<121, 46, 100>>) @@ ("w.d" :> <<119, 46, 100>>)
  @@ ("z.d" :> <<122, 46, 100>>) @@ ("c.d" :> <<99, 46, 100>>)
  @@ (".h.d" :> <<46, 104, 46, 100>>) @@ (".h" :> <<46, 104>>)
  @@ ("n.txt" :> <<110, 46, 116, 120, 116>>)
  @@ ("m" :> <<109>>) @@ ("k" :> <<107>>)
  @@ ("contrib" :> <<99, 111, 110, 116, 114, 105, 98>>)
  @@ ("subprojects" :> <<115, 117, 98, 112, 114, 111, 106, 101, 99, 116, 115>>)
  @@ ("src" :> <<115, 114, 99>>)
  @@ ("source" :> <<115, 111, 117, 114, 99, 101>>)
  @@ ("other" :> <<111, 116, 104, 101, 114>>)
  @@ ("p" :> <<112>>) @@ ("q" :> <<113>>) @@ (".hid" :> <<46, 104, 105, 100>>)
  @@ ("usr" :> <<117, 115, 114>>) @@ ("local" :> <<108, 111, 99, 97, 108>>)
  @@ ("include" :> <<105, 110, 99, 108, 117, 100, 101>>) @@ ("d" :> <<100>>)
  @@ ("glibd-2" :> <<103, 108, 105, 98, 100, 45, 50>>)
  @@ ("lib" :> <<108, 105, 98>>) @@ ("ldc" :> <<108, 100, 99>>)
  @@ ("v1" :> <<118, 49>>) @@ ("build" :> <<98, 117, 105, 108, 100>>)

RECURSIVE StrChars(_)
\* the characters of a path string
StrChars(s) == IF s = <<>> THEN <<>> ELSE Chars[Head(s)] \o StrChars(Tail(s))

RECURSIVE LexLess(_, _)
\* Python's str.__lt__ on the character codes
LexLess(a, b) ==
  IF b = <<>> THEN FALSE
  ELSE IF a = <<>> THEN TRUE
  ELSE IF Head(a) # Head(b) THEN Head(a) < Head(b)
  ELSE LexLess(Tail(a), Tail(b))

StrLess(s, t) == LexLess(StrChars(s), StrChars(t))
StrLeq(s, t) == ~StrLess(t, s)

(* ---------------------------- os.path --------------------------------- *)

RECURSIVE LastSep(_)
\* str.rfind('/') + 1
LastSep(p) ==
  IF p = <<>> THEN 0
  ELSE IF p[Len(p)] = "/" THEN Len(p)
  ELSE LastSep(SubSeq(p, 1, Len(p) - 1))

RECURSIVE RStripSep(_)
RStripSep(p) ==
  IF p # <<>> /\ p[Len(p)] = "/" THEN RStripSep(SubSeq(p, 1, Len(p) - 1)) ELSE p

\* os.path.basename
Basename(p) == SubSeq(p, LastSep(p) + 1, Len(p))

\* the head of os.path.split
Dirname(p) ==
  LET head == SubSeq(p, 1, LastSep(p))
  IN IF RStripSep(head) # <<>> THEN RStripSep(head) ELSE head

\* os.path.join of two strings
Join(a, b) ==
  IF b # <<>> /\ b[1] = "/" THEN b
  ELSE IF a = <<>> \/ a[Len(a)] = "/" THEN a \o b
  ELSE a \o <<"/">> \o b

RECURSIVE NormComps(_, _)
\* the component loop of os.path.normpath for an absolute path
NormComps(comps, acc) ==
  IF comps = <<>> THEN acc
  ELSE LET c == Head(comps)
       IN IF c = "." THEN NormComps(Tail(comps), acc)
          ELSE IF c = ".."
               THEN NormComps(Tail(comps),
                              IF acc = <<>> THEN acc
                              ELSE SubSeq(acc, 1, Len(acc) - 1))
          ELSE NormComps(Tail(comps), Append(acc, c))

\* the components of os.path.abspath(p); the roots are absolute paths
Components(p) == NormComps(SelectSeq(p, LAMBDA t : t # "/"), <<>>)

RECURSIVE CommonLen(_, _)
\* len(os.path.commonprefix([a, b])) on component lists
CommonLen(a, b) ==
  IF a = <<>> \/ b = <<>> \/ Head(a) # Head(b) THEN 0
  ELSE 1 + CommonLen(Tail(a), Tail(b))

RECURSIVE JoinAll(_)
JoinAll(comps) ==
  IF Len(comps) = 1 THEN <<comps[1]>>
  ELSE Join(JoinAll(SubSeq(comps, 1, Len(comps) - 1)), <<comps[Len(comps)]>>)

\* os.path.relpath(path, start)
Relpath(path, start) ==
  LET start_list == Components(start)
      path_list == Components(path)
      i == CommonLen(start_list, path_list)
      rel_list == [j \in 1..(Len(start_list) - i) |-> ".."]
                  \o SubSeq(path_list, i + 1, Len(path_list))
  IN IF rel_list = <<>> THEN <<".">> ELSE JoinAll(rel_list)

(* ---------------------------- filesystem ------------------------------ *)

\* fs is the set of existing entries [path |-> components, dir |-> BOOLEAN];
\* the root directory always exists
Lexists(p) == Components(p) = <<>> \/ \E e \in fs : e.path = Components(p)

\* os.path.isdir
Isdir(p) == Components(p) = <<>> \/ \E e \in fs : e.path = Components(p) /\ e.dir

(* ------------------------------- glob --------------------------------- *)

\* glob.has_magic: the string holds one of * ? [
HasMagic(s) == \E i \in 1..Len(StrChars(s)) : StrChars(s)[i] \in {42, 63, 91}

\* glob._ishidden: the name starts with a dot
IsHidden(name) == Chars[name][1] = 46

RECURSIVE Match(_, _)
\* fnmatch of a name's characters against a pattern whose only wildcard is *
Match(n, p) ==
  IF p = <<>> THEN n = <<>>
  ELSE IF Head(p) = 42
       THEN Match(n, Tail(p)) \/ (n # <<>> /\ Match(Tail(n), p))
  ELSE n # <<>> /\ Head(n) = Head(p) /\ Match(Tail(n), Tail(p))

FnMatch(name, pattern) == Match(Chars[name], StrChars(pattern))

\* glob._iterdir: the names in a directory (nothing when it cannot be scanned)
Iterdir(dirname, dironly) ==
  IF ~Isdir(dirname) THEN {}
  ELSE LET dc == Components(dirname)
       IN { e.path[Len(e.path)] :
              e \in { x \in fs : /\ Len(x.path) = Len(dc) + 1
                                 /\ SubSeq(x.path, 1, Len(dc)) = dc
                                 /\ (dironly => x.dir) } }

\* glob._glob0: a literal base name
Glob0(dirname, basename, dironly) ==
  IF basename = <<>>
  THEN IF Isdir(dirname) THEN {basename} ELSE {}
  ELSE IF Lexists(Join(dirname, basename)) THEN {basename} ELSE {}

\* glob._glob1: one level, hidden names skipped unless the pattern is hidden
Glob1(dirname, pattern, dironly) ==
  { <<x>> : x \in { n \in Iterdir(dirname, dironly) :
                      /\ (IsHidden(pattern[1]) \/ ~IsHidden(n))
                      /\ FnMatch(n, pattern) } }

RECURSIVE Rlistdir(_, _)
\* glob._rlistdir: every non-hidden entry below dirname, at any depth
Rlistdir(dirname, dironly) ==
  UNION { {<<x>>} \cup { Join(<<x>>, y) : y \in Rlistdir(Join(dirname, <<x>>), dironly) } :
            x \in { n \in Iterdir(dirname, dironly) : ~IsHidden(n) } }

\* glob._glob2: the directory itself and everything below it
Glob2(dirname, pattern, dironly) == {<<>>} \cup Rlistdir(dirname, dironly)

\* the selection of glob_in_dir in glob._iglob
GlobInDir(dirname, basename, recursive, dironly) ==
  IF HasMagic(basename)
  THEN IF recursive /\ basename = <<"**">>
       THEN Glob2(dirname, basename, dironly)
       ELSE Glob1(dirname, basename, dironly)
  ELSE Glob0(dirname, basename, dironly)

RECURSIVE Iglob(_, _, _)
\* glob._iglob for a pathname with a directory part
Iglob(pathname, recursive, dironly) ==
  LET dirname == Dirname(pathname)
      basename == Basename(pathname)
  IN IF ~HasMagic(pathname)
     THEN IF basename # <<>>
          THEN IF Lexists(pathname) THEN {pathname} ELSE {}
          ELSE IF Isdir(dirname) THEN {pathname} ELSE {}
     ELSE LET dirs == IF dirname # pathname /\ HasMagic(dirname)
                      THEN Iglob(dirname, recursive, TRUE)
                      ELSE {dirname}
          IN UNION { { Join(dn, name) :
                         name \in GlobInDir(dn, basename, recursive, dironly) } :
                       dn \in dirs }

\* glob.glob(pathname, recursive=...)
Glob(pathname, recursive) == Iglob(pathname, recursive, FALSE)

(* ------------------------------ sorted -------------------------------- *)

RECURSIVE Insert(_, _)
Insert(x, s) ==
  IF s = <<>> THEN <<x>>
  ELSE IF StrLess(x, Head(s)) THEN <<x>> \o s
  ELSE <<Head(s)>> \o Insert(x, Tail(s))

RECURSIVE Sorted(_)
\* sorted(list of str)
Sorted(l) == IF l = <<>> THEN <<>> ELSE Insert(Head(l), Sorted(Tail(l)))

\* every order a directory scan can deliver the members of a set in
Orders(S) ==
  { f \in [1..Cardinality(S) -> S] : \A x \in S : \E i \in 1..Cardinality(S) : f[i] = x }

(* ------------------------------ inputs -------------------------------- *)

Abs(comps) == IF comps = <<>> THEN <<"/">> ELSE <<"/">> \o JoinAll(comps)

\* the entries of a set of leaves together with the directories above them
Closure(leaves) ==
  leaves \cup UNION { { [path |-> SubSeq(l.path, 1, k), dir |-> TRUE] :
                          k \in 1..(Len(l.path) - 1) } : l \in leaves }

\* no path is both a file and a directory, and every parent is a directory
WellFormed(S) ==
  /\ \A e1 \in S, e2 \in S : e1.path = e2.path => e1 = e2
  /\ \A e \in S : \A k \in 1..(Len(e.path) - 1) :
       [path |-> SubSeq(e.path, 1, k), dir |-> TRUE] \in S

File(comps) == [path |-> comps, dir |-> FALSE]
Dir(comps) == [path |-> comps, dir |-> TRUE]

\* what may exist below the build root /b
FinderLeaves ==
  { Dir(<<"b", "girepo">>),
    File(<<"b", "girepo", "a.d">>),
    File(<<"b", "girepo", "n.txt">>),
    File(<<"b", "girepo", ".h.d">>),
    Dir(<<"b", "girepo", "c.d">>),
    File(<<"b", "girepo", "m", "-x.d">>),
    File(<<"b", "girepo", "m", "y.d">>),
    File(<<"b", "girepo", ".h", "z.d">>),
    File(<<"b", "girepo", "m", "k", "w.d">>) }

EnvNames == {"MESON_BUILD_ROOT", "MESON_SOURCE_ROOT"}

BuildRoots == { <<>>, Abs(<<"b">>), Abs(<<"nb">>) }
SourceRoots == { <<>>, Abs(<<"b">>), Abs(<<"s">>), Abs(<<"b", "girepo", "m">>) }

\* os.environ: a variable that is not set is not in the domain
Environs ==
  { e \in UNION { [D -> BuildRoots \cup SourceRoots] : D \in SUBSET EnvNames } :
      /\ "MESON_BUILD_ROOT" \in DOMAIN e => e["MESON_BUILD_ROOT"] \in BuildRoots
      /\ "MESON_SOURCE_ROOT" \in DOMAIN e => e["MESON_SOURCE_ROOT"] \in SourceRoots }

FileSystems(leaves) ==
  { Closure(L) : L \in { X \in SUBSET leaves : Cardinality(X) <= MaxEntries } }

NoEnv == [n \in {} |-> <<>>]

InitFinder ==
  /\ prog = "find-d-intf-files"
  /\ environ \in Environs
  /\ argv = <<<<"find-d-intf-files.py">>>>
  /\ fs \in { S \in FileSystems(FinderLeaves) : WellFormed(S) }
  /\ dscanner = FALSE
  /\ pc = "env"

\* what may exist around the source root /s and in the system directories
LintLeaves ==
  { Dir(<<"s">>),
    Dir(<<"s", "contrib", "subprojects", "src">>),
    Dir(<<"s", "contrib", "subprojects", "p", "src">>),
    File(<<"s", "contrib", "subprojects", "p", "source">>),
    File(<<"s", "contrib", "subprojects", "p", "other">>),
    Dir(<<"s", "contrib", "subprojects", "p", "q", "src">>),
    Dir(<<"s", "contrib", "subprojects", ".hid", "src">>),
    Dir(<<"usr", "include", "d", "glibd-2">>),
    File(<<"usr", "include", "d", "glibd-2">>),
    Dir(<<"usr", "local", "include", "d", "glibd-2">>),
    Dir(<<"usr", "lib", "ldc", "v1", "include", "d">>),
    Dir(<<"usr", "lib", "ldc", "v1", "include", "d", "ldc">>) }

LintRoots == { Abs(<<"s">>), Abs(<<"s">>) \o <<"/">> }

\* sys.argv: the script name and zero to three arguments
Argvs ==
  { <<<<"run-dscanner.py">>>> }
  \cup { <<<<"run-dscanner.py">>, r>> : r \in LintRoots }
  \cup { <<<<"run-dscanner.py">>, r, <<"dscanner.ini">>>> : r \in LintRoots }
  \cup { <<<<"run-dscanner.py">>, r, <<"dscanner.ini">>, <<"extra">>>> : r \in LintRoots }

InitLint ==
  /\ prog = "run-dscanner"
  /\ environ = NoEnv
  /\ argv \in Argvs
  /\ fs \in { S \in FileSystems(LintLeaves) : WellFormed(S) }
  /\ dscanner \in BOOLEAN
  /\ pc = "main"

Init ==
  /\ (InitFinder \/ InitLint)
  /\ files = <<>>
  /\ queue = <<>>
  /\ cmd = <<>>
  /\ launches = <<>>
  /\ pres = <<>>
  /\ calls = <<>>
  /\ out = <<>>
  /\ status = <<>>

(* ----------------------- find-d-intf-files.py ------------------------- *)

\* a bug: the value is compared with None only
UnsetNoneOnly(name) == name \notin DOMAIN environ

\* os.environ.get(name) is None or the empty string
Unset(name) == name \notin DOMAIN environ \/ environ[name] = <<>>

meson_build_root == environ["MESON_BUILD_ROOT"]
meson_source_root == environ["MESON_SOURCE_ROOT"]

FinderDiag == <<"This script should only be run by the Meson build system.">>

\* lines 7-12: read the two roots; without them print the message and exit 1
Finder_CheckEnv ==
  /\ prog = "find-d-intf-files" /\ pc = "env"
  /\ IF Unset("MESON_BUILD_ROOT") \/ Unset("MESON_SOURCE_ROOT")
     THEN /\ out' = Append(out, FinderDiag)
          /\ status' = <<1>>
          /\ pc' = "exit"
     ELSE /\ pc' = "glob"
          /\ UNCHANGED <<out, status>>
  /\ UNCHANGED <<prog, environ, argv, fs, dscanner, files, queue, cmd,
                 launches, pres, calls>>

\* a bug: the pattern without the ** component
FinderPatternFlat == Join(Join(meson_build_root, <<"girepo">>), <<"*.d">>)

\* the pattern of line 14
FinderPattern == Join(Join(Join(meson_build_root, <<"girepo">>), <<"**">>), <<"*.d">>)

\* line 14: files = glob.glob(pattern, recursive=True), in scan order
Finder_Glob ==
  /\ prog = "find-d-intf-files" /\ pc = "glob"
  /\ files' \in Orders(Glob(FinderPattern, TRUE))
  /\ calls' = Append(calls, "glob")
  /\ pc' = "sort"
  /\ UNCHANGED <<prog, environ, argv, fs, dscanner, queue, cmd,
                 launches, pres, out, status>>

\* line 16: the loop runs over sorted(files)
Finder_Sort ==
  /\ prog = "find-d-intf-files" /\ pc = "sort"
  /\ queue' = Sorted(files)
  /\ pc' = "print"
  /\ UNCHANGED <<prog, environ, argv, fs, dscanner, files, cmd,
                 launches, pres, calls, out, status>>

\* line 18: print the next name relative to the source root
Finder_Print ==
  /\ prog = "find-d-intf-files" /\ pc = "print"
  /\ queue # <<>>
  /\ out' = Append(out, Relpath(Head(queue), meson_source_root))
  /\ queue' = Tail(queue)
  /\ UNCHANGED <<prog, environ, argv, fs, dscanner, pc, files, cmd,
                 launches, pres, calls, status>>

\* a bug: an empty result taken for an error
Finder_EndFailEmpty ==
  /\ prog = "find-d-intf-files" /\ pc = "print"
  /\ queue = <<>>
  /\ status' = IF out = <<>> THEN <<1>> ELSE <<0>>
  /\ pc' = "exit"
  /\ UNCHANGED <<prog, environ, argv, fs, dscanner, files, queue, cmd,
                 launches, pres, calls, out>>

\* the end of the script: exit status 0
Finder_End ==
  /\ prog = "find-d-intf-files" /\ pc = "print"
  /\ queue = <<>>
  /\ status' = <<0>>
  /\ pc' = "exit"
  /\ UNCHANGED <<prog, environ, argv, fs, dscanner, files, queue, cmd,
                 launches, pres, calls, out>>

(* --------------------------- run-dscanner.py -------------------------- *)

BUILD_DIR_NAME == <<"build">>

\* lines 19-25: the entries the scan delivers whose base name is src or source
find_local_include_dirs(source_root, scan) ==
  SelectSeq(scan, LAMBDA fname :
              Basename(fname) = <<"src">> \/ Basename(fname) = <<"source">>)

\* the pattern of line 21, expanded without recursive=True
LocalPattern(source_root) ==
  source_root \o <<"/", "contrib", "/", "subprojects", "/", "**", "/", "*">>

IncRoots == << <<"/", "usr", "/", "include", "/", "d", "/">>,
               <<"/", "usr", "/", "local", "/", "include", "/", "d", "/">> >>

\* a bug: os.path.exists in place of os.path.isdir
ExtraIncludeDirsExists ==
  SelectSeq([i \in 1..Len(IncRoots) |-> Join(IncRoots[i], <<"glibd-2">>)],
            LAMBDA idir : Lexists(idir))

\* lines 32-38: the system directories of glibd-2 that exist
ExtraIncludeDirs ==
  SelectSeq([i \in 1..Len(IncRoots) |-> Join(IncRoots[i], <<"glibd-2">>)],
            LAMBDA idir : Isdir(idir))

LdcPattern1 == <<"/", "usr", "/", "lib", "/", "ldc", "/", "*", "/", "include", "/", "d", "/">>
LdcPattern2 == LdcPattern1 \o <<"ldc", "/">>

\* a bug: the generated directories are added only when they exist
find_include_dirs_checked(source_root, scan, ldc1, ldc2) ==
  LET incdirs == find_local_include_dirs(source_root, scan)
                 \o <<Join(source_root, <<"src">>)>>
                 \o ExtraIncludeDirs
                 \o ldc1
                 \o ldc2
                 \o SelectSeq(
                      << source_root \o <<"/">> \o <<"build">> \o <<"/", "girepo", "/">>,
                         source_root \o <<"/">> \o <<"build">> \o <<"/", "src", "/">> >>,
                      LAMBDA d : Isdir(d))
  IN [i \in 1..Len(incdirs) |-> <<"-I">> \o incdirs[i]]

\* lines 28-48: the include flags, for the orders the three scans deliver
find_include_dirs(source_root, scan, ldc1, ldc2) ==
  LET incdirs == find_local_include_dirs(source_root, scan)
                 \o <<Join(source_root, <<"src">>)>>
                 \o ExtraIncludeDirs
                 \o ldc1
                 \o ldc2
                 \o <<source_root \o <<"/">> \o BUILD_DIR_NAME \o <<"/", "girepo", "/">>>>
                 \o <<source_root \o <<"/">> \o BUILD_DIR_NAME \o <<"/", "src", "/">>>>
  IN [i \in 1..Len(incdirs) |-> <<"-I">> \o incdirs[i]]

source_root == argv[2]
dscanner_config == argv[3]

UsageMsg == <<"Need at least source-root and dscanner configuration as parameters!">>
Banner == << <<"===========================">>,
             <<"=       D-Scanner         =">>,
             <<"===========================">> >>

\* a bug: the test is off by one
TooFewArgsOffByOne == Len(argv) < 2

\* line 74: len(sys.argv) < 3
TooFewArgs == Len(argv) < 3

\* lines 73-77: fewer than two arguments is a usage error
Lint_Main ==
  /\ prog = "run-dscanner" /\ pc = "main"
  /\ IF TooFewArgs
     THEN /\ out' = Append(out, UsageMsg)
          /\ status' = <<1>>
          /\ pc' = "exit"
     ELSE /\ pc' = "run"
          /\ UNCHANGED <<out, status>>
  /\ UNCHANGED <<prog, environ, argv, fs, dscanner, files, queue, cmd,
                 launches, pres, calls>>

VersionCmd == << <<"dscanner">>, <<"--version">> >>

\* lines 52-56: the banner and the version probe, whose result is dropped;
\* a tool that cannot be started raises, which ends the program with 1
Lint_VersionProbe ==
  /\ prog = "run-dscanner" /\ pc = "run"
  /\ out' = out \o Banner
  /\ IF dscanner
     THEN /\ launches' = Append(launches, [args |-> VersionCmd, cwd |-> <<>>])
          /\ pc' = "cmd"
          /\ UNCHANGED status
     ELSE /\ status' = <<1>>
          /\ pc' = "exit"
          /\ UNCHANGED launches
  /\ UNCHANGED <<prog, environ, argv, fs, dscanner, files, queue, cmd,
                 pres, calls>>

\* lines 58-61: the command line of the main invocation
Lint_BuildCmd ==
  /\ prog = "run-dscanner" /\ pc = "cmd"
  /\ \E scan \in Orders(Glob(LocalPattern(source_root), FALSE)),
        ldc1 \in Orders(Glob(LdcPattern1, FALSE)),
        ldc2 \in Orders(Glob(LdcPattern2, FALSE)) :
       /\ files' = scan
       /\ cmd' = << <<"dscanner">>,
                    <<"--styleCheck">>, Join(source_root, <<"src">>),
                    <<"--config">>, dscanner_config >>
                 \o find_include_dirs(source_root, scan, ldc1, ldc2)
  /\ calls' = Append(calls, "find_include_dirs")
  /\ pc' = "invoke"
  /\ UNCHANGED <<prog, environ, argv, fs, dscanner, queue,
                 launches, pres, out, status>>

\* line 63: the main invocation in the source root; it raises when the
\* working directory is no directory
Lint_Invoke ==
  /\ prog = "run-dscanner" /\ pc = "invoke"
  /\ IF Isdir(source_root)
     THEN /\ \E r \in (0 - MaxRet)..MaxRet : pres' = <<r>>
          /\ launches' = Append(launches, [args |-> cmd, cwd |-> <<source_root>>])
          /\ pc' = "report"
          /\ UNCHANGED status
     ELSE /\ status' = <<1>>
          /\ pc' = "exit"
          /\ UNCHANGED <<launches, pres>>
  /\ UNCHANGED <<prog, environ, argv, fs, dscanner, files, queue, cmd,
                 calls, out>>

\* a bug: the return code is passed on as the exit status
ExitStatusPassthrough(returncode) == returncode

\* lines 65-71: the exit status for a return code
ExitStatus(returncode) == IF returncode = 0 THEN 0 ELSE 1

\* a bug: a failed invocation is tried again
Lint_ReportRetry ==
  /\ prog = "run-dscanner" /\ pc = "report"
  /\ IF pres[1] # 0 /\ Len(launches) < 3
     THEN /\ pc' = "invoke"
          /\ UNCHANGED <<out, status>>
     ELSE /\ out' = Append(out, <<":) Success">>)
          /\ status' = <<ExitStatus(pres[1])>>
          /\ pc' = "exit"
  /\ UNCHANGED <<prog, environ, argv, fs, dscanner, files, queue, cmd,
                 launches, pres, calls>>

\* lines 65-71: report and exit
Lint_Report ==
  /\ prog = "run-dscanner" /\ pc = "report"
  /\ out' = IF pres[1] = 0
            THEN Append(out, <<":) Success">>)
            ELSE out \o << <<":( D-Scanner found issues">>, <<"CompletedProcess">> >>
  /\ status' = <<ExitStatus(pres[1])>>
  /\ pc' = "exit"
  /\ UNCHANGED <<prog, environ, argv, fs, dscanner, files, queue, cmd,
                 launches, pres, calls>>

Next ==
  \/ Finder_CheckEnv
  \/ Finder_Glob
  \/ Finder_Sort
  \/ Finder_Print
  \/ Finder_End
  \/ Lint_Main
  \/ Lint_VersionProbe
  \/ Lint_BuildCmd
  \/ Lint_Invoke
  \/ Lint_Report

Spec == Init /\ [][Next]_vars

(* ------------------------------ claims -------------------------------- *)

Finder == prog = "find-d-intf-files"
Lint == prog = "run-dscanner"

\* the include flags of the command line: everything after the five fixed words
Flags == { cmd[i] : i \in 6..Len(cmd) }

\* C1: once the main invocation has returned code r, the program ends with
\* status 0 exactly when r = 0 and with status 1 for every other r, and its
\* status is never anything but 0 or 1.
Thm_C1 ==
  (Lint /\ pres # <<>>) =>
    /\ pc \in {"report", "exit"}
    /\ pc = "exit" => /\ status \in {<<0>>, <<1>>}
                      /\ (status = <<0>>) <=> (pres[1] = 0)
                      /\ (pres[1] # 0) => (status = <<1>>)
    /\ pc = "report" => status = <<>>

Wit_C1 == Lint /\ pc = "exit" /\ pres = <<2>> /\ status = <<1>>

\* the variable is not in the environment, or is the empty string
Missing(name) == name \notin DOMAIN environ \/ Len(environ[name]) = 0

\* C2: with MESON_BUILD_ROOT or MESON_SOURCE_ROOT unset or empty, the script
\* prints only the diagnostic, traverses nothing, prints no path and ends
\* with status 1.
Thm_C2 ==
  (Finder /\ (Missing("MESON_BUILD_ROOT") \/ Missing("MESON_SOURCE_ROOT"))) =>
    /\ pc \in {"env", "exit"}
    /\ calls = <<>> /\ files = <<>> /\ queue = <<>>
    /\ pc = "env" => out = <<>> /\ status = <<>>
    /\ pc = "exit" => out = <<FinderDiag>> /\ status = <<1>>

Wit_C2 ==
  /\ Finder /\ pc = "exit" /\ status = <<1>>
  /\ DOMAIN environ = EnvNames
  /\ environ["MESON_BUILD_ROOT"] = <<>>
  /\ environ["MESON_SOURCE_ROOT"] # <<>>

\* C3: with fewer than two arguments the Lint Invoker ends with status 1
\* and has launched nothing and discovered nothing.
Thm_C3 ==
  (Lint /\ Len(argv) < 3) =>
    /\ pc \in {"main", "exit"}
    /\ launches = <<>> /\ calls = <<>> /\ cmd = <<>> /\ files = <<>>
    /\ pc = "exit" => status = <<1>>

Wit_C3 == Lint /\ Len(argv) = 2 /\ pc = "exit" /\ status = <<1>>

\* C4: the lines printed by the Path Discoverer are in non-decreasing
\* string order, each line <= the line after it.
Cex_C4 ==
  (Finder /\ status # <<1>>) =>
    \A i \in 1..(Len(out) - 1) : StrLeq(out[i], out[i + 1])

EndsDotD(name) ==
  LET c == Chars[name]
  IN Len(c) >= 2 /\ c[Len(c) - 1] = 46 /\ c[Len(c)] = 100

\* the entries strictly below <build_root>/girepo
BelowGirepo ==
  LET gc == Components(meson_build_root) \o <<"girepo">>
  IN { e \in fs : Len(e.path) > Len(gc) /\ SubSeq(e.path, 1, Len(gc)) = gc }

\* the files below girepo whose name ends in .d
DotDFiles == { e \in BelowGirepo : ~e.dir /\ EndsDotD(e.path[Len(e.path)]) }

\* the entries below girepo, files or directories, whose name ends in .d and
\* which have no component below girepo that starts with a dot
VisibleDotD ==
  LET n == Len(Components(meson_build_root)) + 1
  IN { e \in BelowGirepo :
         /\ EndsDotD(e.path[Len(e.path)])
         /\ \A k \in (n + 1)..Len(e.path) : Chars[e.path[k]][1] # 46 }

RelLine(e) == Relpath(Abs(e.path), meson_source_root)

\* each entry of S is printed exactly once, and nothing else is printed
PrintedExactly(S) ==
  /\ \A e \in S : Cardinality({ i \in 1..Len(out) : out[i] = RelLine(e) }) = 1
  /\ \A i \in 1..Len(out) : \E e \in S : out[i] = RelLine(e)

\* C5 as stated: every file below girepo whose name ends in .d, whatever
\* the names on its path, is printed exactly once, and nothing else.
Cex_C5 == (Finder /\ status = <<0>>) => PrintedExactly(DotDFiles)

\* C5 amended: every entry below girepo (file or directory) whose name ends
\* in .d and whose components below girepo do not start with a dot is
\* printed exactly once, relative to the source root, and nothing else.
Thm_C5 == (Finder /\ status = <<0>>) => PrintedExactly(VisibleDotD)

Wit_C5 ==
  /\ Finder /\ status = <<0>>
  /\ File(<<"b", "girepo", "m", "k", "w.d">>) \in fs
  /\ File(<<"b", "girepo", "a.d">>) \in fs
  /\ meson_build_root = Abs(<<"b">>)
  /\ Len(out) = 2

\* C6: with both variables set, when nothing below <build_root>/girepo
\* matches, or the build root or girepo does not exist, the script prints
\* no line and ends with status 0.
Thm_C6 ==
  (/\ Finder
   /\ ~Missing("MESON_BUILD_ROOT") /\ ~Missing("MESON_SOURCE_ROOT")
   /\ VisibleDotD = {}) =>
    /\ out = <<>>
    /\ status \in {<<>>, <<0>>}
    /\ pc = "exit" => status = <<0>>

Wit_C6 ==
  /\ Finder /\ pc = "exit" /\ status = <<0>> /\ out = <<>>
  /\ meson_build_root = Abs(<<"nb">>)
  /\ calls = <<"glob">>

UsrGlibd == <<"usr", "include", "d", "glibd-2">>
LocalGlibd == <<"usr", "local", "include", "d", "glibd-2">>

\* C7: the flag of /usr/include/d/glibd-2, and that of
\* /usr/local/include/d/glibd-2, is in the include list exactly when the
\* path is a directory.
Thm_C7 ==
  (Lint /\ cmd # <<>>) =>
    \A g \in {UsrGlibd, LocalGlibd} :
      (<<"-I">> \o Abs(g) \in Flags) <=> (Dir(g) \in fs)

Wit_C7 ==
  /\ Lint /\ cmd # <<>>
  /\ Dir(UsrGlibd) \in fs /\ Dir(LocalGlibd) \notin fs
  /\ <<"-I">> \o Abs(UsrGlibd) \in Flags
  /\ <<"-I">> \o Abs(LocalGlibd) \notin Flags

\* C8: the flags of <source_root>/src, <source_root>/build/girepo/ and
\* <source_root>/build/src/ are always in the include list, which has at
\* least three flags, whatever exists on disk.
Thm_C8 ==
  (Lint /\ cmd # <<>>) =>
    /\ <<"-I", "/", "s", "/", "src">> \in Flags
    /\ <<"-I">> \o argv[2] \o <<"/", "build", "/", "girepo", "/">> \in Flags
    /\ <<"-I">> \o argv[2] \o <<"/", "build", "/", "src", "/">> \in Flags
    /\ Len(cmd) - 5 >= 3

Wit_C8 == Lint /\ cmd # <<>> /\ fs = {} /\ Len(cmd) = 8

\* the entries below <source_root>/contrib/subprojects, at any depth
BelowSubprojects ==
  LET sc == <<"s", "contrib", "subprojects">>
  IN { e \in fs : Len(e.path) > 3 /\ SubSeq(e.path, 1, 3) = sc }

HasFlag(e) == \E f \in Flags : Components(Tail(f)) = e.path

\* C9: every entry below <source_root>/contrib/subprojects, at any depth,
\* whose base name is src or source is an include candidate, and no entry
\* with another base name is.
Cex_C9 ==
  (Lint /\ cmd # <<>>) =>
    \A e \in BelowSubprojects :
      HasFlag(e) <=> (e.path[Len(e.path)] \in {"src", "source"})

IsIncludeFlag(w) == Len(w) >= 1 /\ w[1] = "-I"

\* C10: the tool is launched at most twice, first as `dscanner --version`,
\* then once as the main invocation in the source root; when both launches
\* succeed the program ends with exactly these two launches, whatever the
\* return code.
Thm_C10 ==
  Lint =>
    /\ Len(launches) <= 2
    /\ Len(launches) >= 1 =>
         launches[1] = [args |-> << <<"dscanner">>, <<"--version">> >>, cwd |-> <<>>]
    /\ Len(launches) = 2 =>
         /\ launches[2].cwd = <<argv[2]>>
         /\ SubSeq(launches[2].args, 1, 5) =
              << <<"dscanner">>, <<"--styleCheck">>, <<"/", "s", "/", "src">>,
                 <<"--config">>, argv[3] >>
         /\ \A i \in 6..Len(launches[2].args) : IsIncludeFlag(launches[2].args[i])
         /\ launches[2].args = cmd
         /\ pres # <<>>
    /\ (pc = "exit" /\ Len(argv) >= 3 /\ dscanner /\ Isdir(argv[2])) =>
         Len(launches) = 2

Wit_C10 == Lint /\ pc = "exit" /\ Len(launches) = 2 /\ pres = <<0 - 1>> /\ status = <<1>>

====
